---- MODULE Spec2Model ----
(***************************************************************************)
(* Admission control of server/index.js: the IP ban store (ipBans,         *)
(* isBanned), the violation tracker (ipViolations, recordViolation), the   *)
(* four express-rate-limit tiers and the middleware chain that runs them.  *)
(* Time is Date.now() in milliseconds.  Every middleware is one action;    *)
(* a request walks the chain in the order the middlewares are mounted.     *)
(***************************************************************************)
EXTENDS Integers, Sequences, FiniteSets, TLC

(***************************************************************************)
(* Bounds of the exploration (not program values).                         *)
(***************************************************************************)
\* requests a single-route flood gets through before its client stops
\* (enough to use the sustained tier up)
FloodBudget == 101
\* requests the client that paces itself gets through (enough to use the api
\* tier up)
PacedBudget == 201
\* requests the client of the authentication route gets through
LoginBudget == 12
\* requests the mixed two-client workload gets through
MixBudget == 5
\* requests the workload with two requests in flight gets through
PairBudget == 7
\* arrivals of one client are numbered up to here; later ones share the number
SeqCap == 61
\* the same, for the workload with two requests in flight
PairSeqCap == 12
\* calls made on the drawn maps when the functions are called directly
CallBudget == 1
\* requests the client gets through when the clock is fair
LiveBudget == 7
\* largest violations count of a drawn ban record
MaxViolations == 2

IPs == {"a", "b"}
Slots == {1, 2}

(***************************************************************************)
(* Program values.                                                         *)
(***************************************************************************)
\* index.js:79  now - time < 5 * 60 * 1000
ViolationWindowMs == 5 * 60 * 1000
\* index.js:85  const banDuration = 15 * 60 * 1000
BanDurationMs == 15 * 60 * 1000
\* index.js:84  recentViolations.length >= 5
BanThreshold == 5

Tiers == {"burst", "sustained", "api", "auth"}

\* index.js:179, 188, 196, 206  windowMs of each rateLimit({...})
WindowMs(tier) ==
  CASE tier = "burst" -> 1000
    [] tier = "sustained" -> 60 * 1000
    [] tier = "api" -> 15 * 60 * 1000
    [] tier = "auth" -> 60 * 1000

\* the api tier configured with the sustained tier's max
MaxApiAsSustained(tier) ==
  CASE tier = "burst" -> 50
    [] tier = "sustained" -> 100
    [] tier = "api" -> 100
    [] tier = "auth" -> 5

\* index.js:180, 189, 197, 207  max of each rateLimit({...})
Max(tier) ==
  CASE tier = "burst" -> 50
    [] tier = "sustained" -> 100
    [] tier = "api" -> 200
    [] tier = "auth" -> 5

\* no limiter gives a successful request its hit back
SkipNothing(tier) == FALSE

\* index.js:190  skipSuccessfulRequests is set on authLimiter only
SkipSuccessfulRequests(tier) == tier = "auth"

(***************************************************************************)
(* Routes.  A page served by express.static, an API route, and the         *)
(* authentication route.  The predicates are the path tests of the code.   *)
(***************************************************************************)
Routes == {"/index.html", "/api/posts", "/api/auth/login"}

\* the test on req.path alone: inside the router mounted at /api/auth the path
\* is /login
IsApiRequestByPath(route) == route \in {"/api/posts"}

\* index.js:162  originalUrl / url / path startsWith('/api/')
IsApiRequest(route) == route \in {"/api/posts", "/api/auth/login"}
\* apiLimiter mounted without a path: app.use(apiLimiter)
MountedApiEverywhere(route) == route \in Routes

\* index.js:219  app.use('/api/', apiLimiter)
MountedApi(route) == route \in {"/api/posts", "/api/auth/login"}
\* index.js:248  app.use('/api/auth', authLimiter, authRoutes)
MountedAuth(route) == route = "/api/auth/login"

(***************************************************************************)
(* Maps (JavaScript Map): functions whose domain is the set of keys.       *)
(***************************************************************************)
EmptyMap == << >>
Has(m, k) == k \in DOMAIN m
Put(m, k, v) == [x \in (DOMAIN m) \cup {k} |-> IF x = k THEN v ELSE m[x]]
Del(m, k) == [x \in (DOMAIN m) \ {k} |-> m[x]]

VARIABLES
  now,           \* Date.now()
  ipBans,        \* Map ip -> [bannedUntil, violations]
  ipViolations,  \* Map ip -> sequence of timestamps
  stores,        \* tier -> Map ip -> [count, windowStart]
  reqs,          \* slot -> the request in that slot and where it is in the chain
  load,          \* the clients: routes and identities they use, arrivals left
  arrivals,      \* ip -> number of requests that have arrived
  bansAt,        \* ip -> times at which recordViolation banned it
  sinceBan,      \* ip -> times of the recordViolation calls since its last ban
  passed,        \* tier -> ip -> requests the tier let through in its window
  answered       \* ip -> answers of the authentication route in the auth window

vars == <<now, ipBans, ipViolations, stores, reqs, load, arrivals, bansAt, sinceBan,
          passed, answered>>

(***************************************************************************)
(* Ban store and violation tracker (index.js:55-98).  An operator takes    *)
(* the maps it reads and Date.now(), and returns the maps it leaves.       *)
(***************************************************************************)
\* isBanned with the expiry test off by one: the ban ends a millisecond early
isBannedEarly(bans, ip, t) ==
  IF ~Has(bans, ip)
  THEN [banned |-> FALSE, bans |-> bans]
  ELSE IF t >= bans[ip].bannedUntil
       THEN [banned |-> FALSE, bans |-> Del(bans, ip)]
       ELSE [banned |-> TRUE, bans |-> bans]

\* isBanned that reports an expired ban as over but leaves its record
isBannedKeepsRecord(bans, ip, t) ==
  IF ~Has(bans, ip)
  THEN [banned |-> FALSE, bans |-> bans]
  ELSE IF t > bans[ip].bannedUntil
       THEN [banned |-> FALSE, bans |-> bans]
       ELSE [banned |-> TRUE, bans |-> bans]

\* isBanned that restarts the ban of an identity that asks while banned
isBannedSliding(bans, ip, t) ==
  IF ~Has(bans, ip)
  THEN [banned |-> FALSE, bans |-> bans]
  ELSE IF t > bans[ip].bannedUntil
       THEN [banned |-> FALSE, bans |-> Del(bans, ip)]
       ELSE [banned |-> TRUE,
             bans |-> Put(bans, ip, [bans[ip] EXCEPT !.bannedUntil = t + BanDurationMs])]

\* isBanned that empties the ban store when it finds a ban that has run out
isBannedClearsAll(bans, ip, t) ==
  IF ~Has(bans, ip)
  THEN [banned |-> FALSE, bans |-> bans]
  ELSE IF t > bans[ip].bannedUntil
       THEN [banned |-> FALSE, bans |-> EmptyMap]
       ELSE [banned |-> TRUE, bans |-> bans]

\* index.js:60-71
isBanned(bans, ip, t) ==
  IF ~Has(bans, ip)
  THEN [banned |-> FALSE, bans |-> bans]
  ELSE IF t > bans[ip].bannedUntil
       THEN [banned |-> FALSE, bans |-> Del(bans, ip)]
       ELSE [banned |-> TRUE, bans |-> bans]

\* recordViolation with the threshold test off by one: the ban comes with the
\* sixth violation
recordViolationLate(bans, viols, ip, t) ==
  LET violations == IF Has(viols, ip) THEN viols[ip] ELSE << >>
      recentViolations ==
        Append(SelectSeq(violations, LAMBDA time : t - time < ViolationWindowMs), t)
  IN IF Len(recentViolations) > BanThreshold
     THEN LET existingBan == IF Has(bans, ip) THEN bans[ip].violations ELSE 0
          IN [bans |-> Put(bans, ip, [bannedUntil |-> t + BanDurationMs,
                                      violations |-> existingBan + 1]),
              viols |-> Del(viols, ip),
              banned |-> TRUE]
     ELSE [bans |-> bans,
           viols |-> Put(viols, ip, recentViolations),
           banned |-> FALSE]

\* recordViolation that bans and leaves the identity's log as it is
recordViolationKeepsLog(bans, viols, ip, t) ==
  LET violations == IF Has(viols, ip) THEN viols[ip] ELSE << >>
      recentViolations ==
        Append(SelectSeq(violations, LAMBDA time : t - time < ViolationWindowMs), t)
  IN IF Len(recentViolations) >= BanThreshold
     THEN LET existingBan == IF Has(bans, ip) THEN bans[ip].violations ELSE 0
          IN [bans |-> Put(bans, ip, [bannedUntil |-> t + BanDurationMs,
                                      violations |-> existingBan + 1]),
              viols |-> Put(viols, ip, recentViolations),
              banned |-> TRUE]
     ELSE [bans |-> bans,
           viols |-> Put(viols, ip, recentViolations),
           banned |-> FALSE]

\* recordViolation whose filter keeps a violation that is exactly five minutes
\* old
recordViolationStale(bans, viols, ip, t) ==
  LET violations == IF Has(viols, ip) THEN viols[ip] ELSE << >>
      recentViolations ==
        Append(SelectSeq(violations, LAMBDA time : t - time <= ViolationWindowMs), t)
  IN IF Len(recentViolations) >= BanThreshold
     THEN LET existingBan == IF Has(bans, ip) THEN bans[ip].violations ELSE 0
          IN [bans |-> Put(bans, ip, [bannedUntil |-> t + BanDurationMs,
                                      violations |-> existingBan + 1]),
              viols |-> Del(viols, ip),
              banned |-> TRUE]
     ELSE [bans |-> bans,
           viols |-> Put(viols, ip, recentViolations),
           banned |-> FALSE]

\* recordViolation whose ban grows with the identity's violations count
recordViolationEscalating(bans, viols, ip, t) ==
  LET violations == IF Has(viols, ip) THEN viols[ip] ELSE << >>
      recentViolations ==
        Append(SelectSeq(violations, LAMBDA time : t - time < ViolationWindowMs), t)
  IN IF Len(recentViolations) >= BanThreshold
     THEN LET existingBan == IF Has(bans, ip) THEN bans[ip].violations ELSE 0
          IN [bans |-> Put(bans, ip,
                           [bannedUntil |-> t + BanDurationMs * (existingBan + 1),
                            violations |-> existingBan + 1]),
              viols |-> Del(viols, ip),
              banned |-> TRUE]
     ELSE [bans |-> bans,
           viols |-> Put(viols, ip, recentViolations),
           banned |-> FALSE]

\* index.js:74-98
recordViolation(bans, viols, ip, t) ==
  LET violations == IF Has(viols, ip) THEN viols[ip] ELSE << >>
      recentViolations ==
        Append(SelectSeq(violations, LAMBDA time : t - time < ViolationWindowMs), t)
  IN IF Len(recentViolations) >= BanThreshold
     THEN LET existingBan == IF Has(bans, ip) THEN bans[ip].violations ELSE 0
          IN [bans |-> Put(bans, ip, [bannedUntil |-> t + BanDurationMs,
                                      violations |-> existingBan + 1]),
              viols |-> Del(viols, ip),
              banned |-> TRUE]
     ELSE [bans |-> bans,
           viols |-> Put(viols, ip, recentViolations),
           banned |-> FALSE]

(***************************************************************************)
(* One tier's fixed-window counter (the store behind rateLimit({...})).    *)
(***************************************************************************)
\* the request finds no window of the tier, or one that has run out
Restarts(store, ip, tier, t) ==
  ~Has(store, ip) \/ t - store[ip].windowStart >= WindowMs(tier)

checkAndConsume(store, ip, tier, t) ==
  IF ~Has(store, ip) \/ t - store[ip].windowStart >= WindowMs(tier)
  THEN [allowed |-> TRUE,
        resetAt |-> t + WindowMs(tier),
        store |-> Put(store, ip, [count |-> 1, windowStart |-> t])]
  ELSE IF store[ip].count < Max(tier)
       THEN [allowed |-> TRUE,
             resetAt |-> store[ip].windowStart + WindowMs(tier),
             store |-> Put(store, ip, [store[ip] EXCEPT !.count = @ + 1])]
       ELSE [allowed |-> FALSE,
             resetAt |-> store[ip].windowStart + WindowMs(tier),
             store |-> store]

\* the compensating decrement of skipSuccessfulRequests
decrement(store, ip) ==
  IF Has(store, ip) /\ store[ip].count > 0
  THEN Put(store, ip, [store[ip] EXCEPT !.count = @ - 1])
  ELSE store

(***************************************************************************)
(* rateLimitHandler (index.js:153-175): the response it sends and the maps *)
(* recordViolation leaves.  req.rateLimit.resetTime is resetAt.            *)
(***************************************************************************)
rateLimitResponse(route, resetAt, t) ==
  LET resetTime == (t \div 1000) + ((resetAt - t) \div 1000)
      waitSeconds == (resetAt - t) \div 1000
  IN IF IsApiRequest(route)
     THEN [status |-> 429, kind |-> "json",
           body |-> [error |-> "Too many requests. Please try again later.",
                     retryAfter |-> waitSeconds,
                     resetTime |-> resetTime]]
     ELSE [status |-> 302, kind |-> "redirect",
           location |-> "/429.html", query |-> [reset |-> resetTime]]

rateLimitHandler(bans, viols, ip, route, resetAt, t) ==
  LET v == recordViolation(bans, viols, ip, t)
  IN [bans |-> v.bans, viols |-> v.viols, banned |-> v.banned,
      res |-> rateLimitResponse(route, resetAt, t)]

\* index.js:110  res.status(403).sendFile(.../403.html)
ForbiddenResponse == [status |-> 403, kind |-> "file", file |-> "403.html"]
NoResponse == [status |-> 0, kind |-> "none"]

(***************************************************************************)
(* Requests.  pc names the middleware the request waits for.               *)
(***************************************************************************)
NoRequest ==
  [pc |-> "idle", ip |-> "-", route |-> "-", seq |-> 0, checkedAt |-> -1,
   verdict |-> "none", tier |-> "none", resetAt |-> -1, nviol |-> 0,
   ran |-> {}, overtaken |-> FALSE, res |-> NoResponse]

InFlight(r) == reqs[r].pc \notin {"idle", "done"}

\* the middleware mounted after a limiter that let the request through
\* (index.js:215-219, 245-248)
NextAfter(tier, route) ==
  CASE tier = "burst" -> "sustained"
    [] tier = "sustained" -> IF MountedApi(route) THEN "api" ELSE "route"
    [] tier = "api" -> IF MountedAuth(route) THEN "auth" ELSE "route"
    [] tier = "auth" -> "route"

\* The clients.  Each sends its next request when it likes and lets time
\* pass only when it has been turned away or has used a window up (Tick).  A
\* flooding client keeps to one route.  The pacing client also honours the
\* RateLimit headers of the two global tiers: it does not send into a global
\* window that is used up.  budget is the number of requests the server still
\* lets through before the clients stop.
Workloads ==
  {[routes |-> {rt}, ips |-> {"a"}, budget |-> FloodBudget, parallel |-> 1,
    paced |-> FALSE, numbered |-> SeqCap] : rt \in {"/index.html", "/api/posts"}}
  \cup {[routes |-> {"/api/posts"}, ips |-> {"a"}, budget |-> PacedBudget,
         parallel |-> 1, paced |-> TRUE, numbered |-> SeqCap]}
  \cup {[routes |-> {"/api/auth/login"}, ips |-> {"a"}, budget |-> LoginBudget,
         parallel |-> 1, paced |-> FALSE, numbered |-> SeqCap]}
  \cup {[routes |-> Routes, ips |-> IPs, budget |-> MixBudget, parallel |-> 1,
         paced |-> FALSE, numbered |-> SeqCap]}
  \cup {[routes |-> {"/api/auth/login"}, ips |-> {"a"}, budget |-> PairBudget,
         parallel |-> 2, paced |-> FALSE, numbered |-> PairSeqCap]}

Init ==
  /\ now = 0
  /\ ipBans = EmptyMap
  /\ ipViolations = EmptyMap
  /\ stores = [tier \in Tiers |-> EmptyMap]
  /\ reqs = [r \in Slots |-> NoRequest]
  /\ load \in Workloads
  /\ arrivals = [ip \in IPs |-> 0]
  /\ bansAt = [ip \in IPs |-> << >>]
  /\ sinceBan = [ip \in IPs |-> << >>]
  /\ passed = [tier \in Tiers |-> [ip \in IPs |-> 0]]
  /\ answered = [ip \in IPs |-> [ok |-> 0, failed |-> 0]]

\* a window of the tier that is used up and has not run out
UsedUp(tier, ip) ==
  /\ Has(stores[tier], ip)
  /\ stores[tier][ip].count >= Max(tier)
  /\ now - stores[tier][ip].windowStart < WindowMs(tier)

SeqNo(n) == IF n < load.numbered THEN n + 1 ELSE load.numbered

\* a request reaches the server and is queued for the first middleware
Arrive(r, ip, route) ==
  /\ load.budget > Cardinality({s \in Slots : InFlight(s)})
  /\ ip \in load.ips
  /\ route \in load.routes
  /\ load.paced => ~UsedUp("burst", ip) /\ ~UsedUp("sustained", ip)
  /\ ~InFlight(r)
  /\ \A s \in Slots : s < r => InFlight(s)
  /\ Cardinality({s \in Slots : InFlight(s)}) < load.parallel
  /\ reqs' = [reqs EXCEPT ![r] =
       [NoRequest EXCEPT !.pc = "banCheck", !.ip = ip, !.route = route,
                         !.seq = SeqNo(arrivals[ip])]]
  /\ arrivals' = [arrivals EXCEPT ![ip] = SeqNo(@)]
  /\ UNCHANGED <<now, ipBans, ipViolations, stores, load, bansAt, sinceBan,
                 passed, answered>>

\* index.js:101-114  the IP ban check middleware
BanCheck(r) ==
  /\ reqs[r].pc = "banCheck"
  /\ LET q == reqs[r]
         b == isBanned(ipBans, q.ip, now)
     IN /\ ipBans' = b.bans
        /\ reqs' = [reqs EXCEPT ![r] =
             IF b.banned
             THEN [q EXCEPT !.pc = "done", !.checkedAt = now,
                            !.verdict = "Banned", !.res = ForbiddenResponse]
             ELSE [q EXCEPT !.pc = "burst", !.checkedAt = now]]
  /\ UNCHANGED <<now, ipViolations, stores, load, arrivals, bansAt, sinceBan,
                 passed, answered>>

\* a limiter whose handler answers and then lets the request go on down the
\* chain
LimiterCallsNext(r, tier) ==
  /\ reqs[r].pc = tier
  /\ LET q == reqs[r]
         c == checkAndConsume(stores[tier], q.ip, tier, now)
         h == rateLimitHandler(ipBans, ipViolations, q.ip, q.route, c.resetAt, now)
     IN IF c.allowed
        THEN /\ stores' = [stores EXCEPT ![tier] = c.store]
             /\ reqs' = [reqs EXCEPT ![r] =
                  [q EXCEPT !.pc = NextAfter(tier, q.route),
                            !.ran = @ \cup {tier}]]
             /\ passed' = [passed EXCEPT ![tier][q.ip] =
                             IF Restarts(stores[tier], q.ip, tier, now)
                             THEN 1 ELSE @ + 1]
             /\ answered' = IF tier = "auth"
                                /\ Restarts(stores[tier], q.ip, tier, now)
                             THEN [answered EXCEPT ![q.ip] = [ok |-> 0, failed |-> 0]]
                             ELSE answered
             /\ UNCHANGED <<ipBans, ipViolations, bansAt, sinceBan>>
        ELSE /\ stores' = [stores EXCEPT ![tier] = c.store]
             /\ ipBans' = h.bans
             /\ ipViolations' = h.viols
             /\ reqs' = [reqs EXCEPT ![r] =
                  [q EXCEPT !.pc = NextAfter(tier, q.route),
                            !.ran = @ \cup {tier},
                            !.verdict = "RateLimited", !.tier = tier,
                            !.resetAt = c.resetAt, !.nviol = @ + 1,
                            !.res = h.res]]
             /\ bansAt' = IF h.banned
                          THEN [bansAt EXCEPT ![q.ip] = Append(@, now)]
                          ELSE bansAt
             /\ sinceBan' = [sinceBan EXCEPT ![q.ip] =
                               IF h.banned THEN << >> ELSE Append(@, now)]
             /\ UNCHANGED <<passed, answered>>
  /\ UNCHANGED <<now, load, arrivals>>

\* a limiter that lets the request through and does not save the window it
\* has counted the request in
LimiterLosesUpdate(r, tier) ==
  /\ reqs[r].pc = tier
  /\ LET q == reqs[r]
         c == checkAndConsume(stores[tier], q.ip, tier, now)
         h == rateLimitHandler(ipBans, ipViolations, q.ip, q.route, c.resetAt, now)
     IN IF c.allowed
        THEN /\ stores' = stores
             /\ reqs' = [reqs EXCEPT ![r] =
                  [q EXCEPT !.pc = NextAfter(tier, q.route),
                            !.ran = @ \cup {tier}]]
             /\ passed' = [passed EXCEPT ![tier][q.ip] =
                             IF Restarts(stores[tier], q.ip, tier, now)
                             THEN 1 ELSE @ + 1]
             /\ answered' = IF tier = "auth"
                                /\ Restarts(stores[tier], q.ip, tier, now)
                             THEN [answered EXCEPT ![q.ip] = [ok |-> 0, failed |-> 0]]
                             ELSE answered
             /\ UNCHANGED <<ipBans, ipViolations, bansAt, sinceBan>>
        ELSE /\ stores' = [stores EXCEPT ![tier] = c.store]
             /\ ipBans' = h.bans
             /\ ipViolations' = h.viols
             /\ reqs' = [s \in Slots |->
                  IF s = r
                  THEN [q EXCEPT !.pc = "done", !.ran = @ \cup {tier},
                                 !.verdict = "RateLimited", !.tier = tier,
                                 !.resetAt = c.resetAt, !.nviol = @ + 1,
                                 !.res = h.res]
                  ELSE IF InFlight(s) /\ reqs[s].ip = q.ip /\ reqs[s].seq < q.seq
                       THEN [reqs[s] EXCEPT !.overtaken = TRUE]
                       ELSE reqs[s]]
             /\ bansAt' = IF h.banned
                          THEN [bansAt EXCEPT ![q.ip] = Append(@, now)]
                          ELSE bansAt
             /\ sinceBan' = [sinceBan EXCEPT ![q.ip] =
                               IF h.banned THEN << >> ELSE Append(@, now)]
             /\ UNCHANGED <<passed, answered>>
  /\ UNCHANGED <<now, load, arrivals>>

\* a rateLimit({...}) middleware: consume, then next() or the handler
Limiter(r, tier) ==
  /\ reqs[r].pc = tier
  /\ LET q == reqs[r]
         c == checkAndConsume(stores[tier], q.ip, tier, now)
         h == rateLimitHandler(ipBans, ipViolations, q.ip, q.route, c.resetAt, now)
     IN IF c.allowed
        THEN /\ stores' = [stores EXCEPT ![tier] = c.store]
             /\ reqs' = [reqs EXCEPT ![r] =
                  [q EXCEPT !.pc = NextAfter(tier, q.route),
                            !.ran = @ \cup {tier}]]
             /\ passed' = [passed EXCEPT ![tier][q.ip] =
                             IF Restarts(stores[tier], q.ip, tier, now)
                             THEN 1 ELSE @ + 1]
             /\ answered' = IF tier = "auth"
                                /\ Restarts(stores[tier], q.ip, tier, now)
                             THEN [answered EXCEPT ![q.ip] = [ok |-> 0, failed |-> 0]]
                             ELSE answered
             /\ UNCHANGED <<ipBans, ipViolations, bansAt, sinceBan>>
        ELSE /\ stores' = [stores EXCEPT ![tier] = c.store]
             /\ ipBans' = h.bans
             /\ ipViolations' = h.viols
             /\ reqs' = [s \in Slots |->
                  IF s = r
                  THEN [q EXCEPT !.pc = "done", !.ran = @ \cup {tier},
                                 !.verdict = "RateLimited", !.tier = tier,
                                 !.resetAt = c.resetAt, !.nviol = @ + 1,
                                 !.res = h.res]
                  ELSE IF InFlight(s) /\ reqs[s].ip = q.ip /\ reqs[s].seq < q.seq
                       THEN [reqs[s] EXCEPT !.overtaken = TRUE]
                       ELSE reqs[s]]
             /\ bansAt' = IF h.banned
                          THEN [bansAt EXCEPT ![q.ip] = Append(@, now)]
                          ELSE bansAt
             /\ sinceBan' = [sinceBan EXCEPT ![q.ip] =
                               IF h.banned THEN << >> ELSE Append(@, now)]
             /\ UNCHANGED <<passed, answered>>
  /\ UNCHANGED <<now, load, arrivals>>

\* index.js:215  app.use(globalBurstLimiter)
GlobalBurstLimiter(r) ==
  /\ reqs[r].pc = "burst"
  /\ Limiter(r, "burst")

\* index.js:216  app.use(globalSustainedLimiter)
GlobalSustainedLimiter(r) ==
  /\ reqs[r].pc = "sustained"
  /\ Limiter(r, "sustained")

\* index.js:219  app.use('/api/', apiLimiter)
ApiLimiter(r) ==
  /\ reqs[r].pc = "api"
  /\ MountedApi(reqs[r].route)
  /\ Limiter(r, "api")

\* index.js:248  app.use('/api/auth', authLimiter, authRoutes)
AuthLimiter(r) ==
  /\ reqs[r].pc = "auth"
  /\ MountedAuth(reqs[r].route)
  /\ Limiter(r, "auth")

\* the route handler (or express.static) answers; a successful answer on the
\* authentication route gives the auth tier its hit back (index.js:190)
Respond(r, ok) ==
  /\ reqs[r].pc = "route"
  /\ ok \/ MountedAuth(reqs[r].route)
  /\ LET q == reqs[r]
     IN /\ reqs' = [reqs EXCEPT ![r] =
             [q EXCEPT !.pc = "done", !.verdict = "Allowed",
                       !.res = [status |-> IF ok THEN 200 ELSE 401,
                                kind |-> "downstream"]]]
        /\ stores' = IF ok /\ MountedAuth(q.route)
                          /\ SkipSuccessfulRequests("auth")
                     THEN [stores EXCEPT !["auth"] = decrement(@, q.ip)]
                     ELSE stores
        /\ answered' = IF MountedAuth(q.route)
                        THEN [answered EXCEPT ![q.ip] =
                                IF ok THEN [@ EXCEPT !.ok = @ + 1]
                                ELSE [@ EXCEPT !.failed = @ + 1]]
                        ELSE answered
  /\ load' = [load EXCEPT !.budget = @ - 1]
  /\ UNCHANGED <<now, ipBans, ipViolations, arrivals, bansAt, sinceBan, passed>>

\* what a client that was turned away, or that has used a window up, waits
\* for: the reset of the window, the oldest violation leaving the log, the
\* last millisecond of its ban and the first after it
Blocking ==
  {stores[p[1]][p[2]].windowStart + WindowMs(p[1]) :
     p \in {x \in Tiers \X IPs : /\ Has(stores[x[1]], x[2])
                                 /\ stores[x[1]][x[2]].count >= Max(x[1])}}
  \cup {ipViolations[ip][1] + ViolationWindowMs :
          ip \in {x \in DOMAIN ipViolations :
                    \E r \in Slots : /\ reqs[r].pc = "done"
                                     /\ reqs[r].ip = x
                                     /\ reqs[r].verdict = "RateLimited"}}
  \cup UNION {{ipBans[ip].bannedUntil, ipBans[ip].bannedUntil + 1} :
                 ip \in {x \in DOMAIN ipBans :
                           \E r \in Slots : /\ reqs[r].pc = "done"
                                            /\ reqs[r].ip = x
                                            /\ reqs[r].verdict = "Banned"}}

\* the first of the instants S still to come, and the millisecond after it
Soonest(S) == {d \in S : d > now /\ \A e \in S : e > now => d <= e + 1}

\* Date.now() moves on
Tick ==
  /\ \A r \in Slots : ~InFlight(r)
  /\ \E d \in Soonest(Blocking) : now' = d
  /\ UNCHANGED <<ipBans, ipViolations, stores, reqs, load, arrivals, bansAt, sinceBan,
                 passed, answered>>

Next ==
  \/ \E r \in Slots, ip \in IPs, route \in Routes : Arrive(r, ip, route)
  \/ \E r \in Slots : BanCheck(r)
  \/ \E r \in Slots : GlobalBurstLimiter(r)
  \/ \E r \in Slots : GlobalSustainedLimiter(r)
  \/ \E r \in Slots : ApiLimiter(r)
  \/ \E r \in Slots : AuthLimiter(r)
  \/ \E r \in Slots, ok \in BOOLEAN : Respond(r, ok)
  \/ Tick

Spec == Init /\ [][Next]_vars

(***************************************************************************)
(* The client of the authentication route with time that moves on: the     *)
(* clock is not held back for ever (SF: it can only move between requests),*)
(* the client keeps sending while it may, and the event loop runs every    *)
(* middleware that is due.                                                 *)
(***************************************************************************)
LiveInit ==
  /\ now = 0
  /\ ipBans = EmptyMap
  /\ ipViolations = EmptyMap
  /\ stores = [tier \in Tiers |-> EmptyMap]
  /\ reqs = [r \in Slots |-> NoRequest]
  /\ load = [routes |-> {"/api/auth/login"}, ips |-> {"a"}, budget |-> LiveBudget,
             parallel |-> 1, paced |-> FALSE, numbered |-> PairSeqCap]
  /\ arrivals = [ip \in IPs |-> 0]
  /\ bansAt = [ip \in IPs |-> << >>]
  /\ sinceBan = [ip \in IPs |-> << >>]
  /\ passed = [tier \in Tiers |-> [ip \in IPs |-> 0]]
  /\ answered = [ip \in IPs |-> [ok |-> 0, failed |-> 0]]

Fairness ==
  /\ SF_vars(Tick)
  /\ WF_vars(\E r \in Slots, ip \in IPs, route \in Routes : Arrive(r, ip, route))
  /\ WF_vars(\E r \in Slots : BanCheck(r))
  /\ WF_vars(\E r \in Slots : GlobalBurstLimiter(r))
  /\ WF_vars(\E r \in Slots : GlobalSustainedLimiter(r))
  /\ WF_vars(\E r \in Slots : ApiLimiter(r))
  /\ WF_vars(\E r \in Slots : AuthLimiter(r))
  /\ WF_vars(\E r \in Slots, ok \in BOOLEAN : Respond(r, ok))

SpecLive == LiveInit /\ [][Next]_vars /\ Fairness

(***************************************************************************)
(* The functions called directly.  The maps are drawn as traffic may have  *)
(* left them: bans written at time 0, logs and windows started at time 0,  *)
(* and the clock at an instant of interest.  Each action is one call; the  *)
(* call and what it returned are kept in slot 1.                           *)
(***************************************************************************)
Instants == {0, 999, ViolationWindowMs, BanDurationMs, BanDurationMs + 1}

BanRecords ==
  {[bannedUntil |-> BanDurationMs, violations |-> v] : v \in 1..MaxViolations}

Logs == {<<0>>, <<0, 0, 0, 0>>}

\* the maps from some identities to the values of V
MapsTo(V) == UNION {[S -> V] : S \in SUBSET IPs}

\* a window of every tier for the identities of w, started at time 0: with
\* one request counted, or used up
WindowMaps ==
  {[tier \in Tiers |->
      [ip \in DOMAIN w |->
         [count |-> IF w[ip] = "full" THEN Max(tier) ELSE 1, windowStart |-> 0]]] :
     w \in MapsTo({"one", "full"})}

CallsInit ==
  /\ now \in Instants
  /\ ipBans \in MapsTo(BanRecords)
  /\ ipViolations \in MapsTo(Logs)
  /\ stores \in WindowMaps
  /\ reqs = [r \in Slots |-> NoRequest]
  /\ load = [routes |-> Routes, ips |-> IPs, budget |-> CallBudget,
             parallel |-> 1, paced |-> FALSE, numbered |-> SeqCap]
  /\ arrivals = [ip \in IPs |-> 0]
  /\ bansAt = [ip \in IPs |-> << >>]
  /\ sinceBan = [ip \in IPs |-> << >>]
  /\ passed = [tier \in Tiers |-> [ip \in IPs |-> 0]]
  /\ answered = [ip \in IPs |-> [ok |-> 0, failed |-> 0]]

\* the record of a call made now for the identity
Call(ip) == [NoRequest EXCEPT !.pc = "done", !.ip = ip, !.checkedAt = now]

\* isBanned(ip)
CallIsBanned(ip) ==
  /\ load.budget > 0
  /\ LET b == isBanned(ipBans, ip, now)
     IN /\ ipBans' = b.bans
        /\ reqs' = [reqs EXCEPT ![1] =
             [Call(ip) EXCEPT !.verdict = IF b.banned THEN "Banned" ELSE "none"]]
  /\ load' = [load EXCEPT !.budget = @ - 1]
  /\ UNCHANGED <<now, ipViolations, stores, arrivals, bansAt, sinceBan,
                 passed, answered>>

\* recordViolation(ip)
CallRecordViolation(ip) ==
  /\ load.budget > 0
  /\ LET v == recordViolation(ipBans, ipViolations, ip, now)
     IN /\ ipBans' = v.bans
        /\ ipViolations' = v.viols
        /\ reqs' = [reqs EXCEPT ![1] = [Call(ip) EXCEPT !.nviol = 1]]
  /\ load' = [load EXCEPT !.budget = @ - 1]
  /\ UNCHANGED <<now, stores, arrivals, bansAt, sinceBan, passed, answered>>

\* rateLimitHandler(req, res), called by the limiter of a tier whose window
\* is used up, for a request on a route the tier is mounted on
CallRateLimitHandler(ip, route, tier) ==
  /\ load.budget > 0
  /\ tier = "api" => MountedApi(route)
  /\ tier = "auth" => MountedAuth(route)
  /\ LET c == checkAndConsume(stores[tier], ip, tier, now)
         h == rateLimitHandler(ipBans, ipViolations, ip, route, c.resetAt, now)
     IN /\ ~c.allowed
        /\ ipBans' = h.bans
        /\ ipViolations' = h.viols
        /\ reqs' = [reqs EXCEPT ![1] =
             [Call(ip) EXCEPT !.route = route, !.verdict = "RateLimited",
                              !.tier = tier, !.resetAt = c.resetAt,
                              !.nviol = 1, !.ran = {tier}, !.res = h.res]]
  /\ load' = [load EXCEPT !.budget = @ - 1]
  /\ UNCHANGED <<now, stores, arrivals, bansAt, sinceBan, passed, answered>>

\* the store of a tier counting a request of the identity
CallCheckAndConsume(ip, tier) ==
  /\ load.budget > 0
  /\ LET c == checkAndConsume(stores[tier], ip, tier, now)
     IN /\ stores' = [stores EXCEPT ![tier] = c.store]
        /\ reqs' = [reqs EXCEPT ![1] =
             [Call(ip) EXCEPT !.tier = tier, !.resetAt = c.resetAt,
                              !.ran = IF c.allowed THEN {tier} ELSE {}]]
  /\ load' = [load EXCEPT !.budget = @ - 1]
  /\ UNCHANGED <<now, ipBans, ipViolations, arrivals, bansAt, sinceBan,
                 passed, answered>>

CallsNext ==
  \/ \E ip \in IPs : CallIsBanned(ip)
  \/ \E ip \in IPs : CallRecordViolation(ip)
  \/ \E ip \in IPs, route \in Routes, tier \in Tiers :
       CallRateLimitHandler(ip, route, tier)
  \/ \E ip \in IPs, tier \in Tiers : CallCheckAndConsume(ip, tier)

SpecCalls == CallsInit /\ [][CallsNext]_vars

(***************************************************************************)
(* Properties.                                                             *)
(***************************************************************************)
Minutes(n) == n * 60 * 1000

\* C1: once recordViolation has banned an identity at time t, every request
\* of that identity whose ban check runs at a time in (t, t + 15 min] is
\* answered Banned, whatever the limiter windows hold.
BanOverridesLimiters ==
  \A r \in Slots :
    reqs[r].checkedAt >= 0 =>
      \A i \in 1..Len(bansAt[reqs[r].ip]) :
        LET t == bansAt[reqs[r].ip][i]
        IN (t < reqs[r].checkedAt /\ reqs[r].checkedAt <= t + Minutes(15))
             => /\ reqs[r].verdict = "Banned"
                /\ reqs[r].res.status = 403

\* a request checked in the last millisecond of a ban, long after the burst
\* and sustained windows that led to the ban have run out, is answered Banned
BannedAtLastInstant ==
  \E r \in Slots :
    /\ reqs[r].verdict = "Banned"
    /\ bansAt[reqs[r].ip] # << >>
    /\ reqs[r].checkedAt = bansAt[reqs[r].ip][1] + Minutes(15)
    /\ Has(stores["burst"], reqs[r].ip)
    /\ reqs[r].checkedAt - stores["burst"][reqs[r].ip].windowStart >= 1000

\* the step is a call of recordViolation(ip)
Recorded(ip) ==
  \E r \in Slots : /\ reqs[r].ip = ip
                   /\ reqs'[r].ip = ip
                   /\ reqs'[r].nviol = reqs[r].nviol + 1

\* the calls of h made less than five minutes before t
CallsInWindow(h, t) == Cardinality({i \in 1..Len(h) : t - h[i] < Minutes(5)})

\* C2: a call of recordViolation creates a ban exactly when it is the fifth
\* call of the identity within the trailing five minutes (counting the calls
\* since its last ban), and then it creates one ban; no other step creates a
\* ban, so four calls whose window runs out lead to none.
BanThresholdExact ==
  [][\A ip \in IPs :
       LET before == CallsInWindow(sinceBan[ip], now)
           created == Len(bansAt'[ip]) - Len(bansAt[ip])
       IN /\ before <= 4
          /\ Recorded(ip) /\ before = 4 => created = 1 /\ Has(ipBans', ip)
          /\ Recorded(ip) /\ before < 4 => created = 0 /\ ipBans' = ipBans
          /\ ~Recorded(ip) => created = 0]_vars

\* four calls, their window run out, and a later call: no ban
FourThenWindowElapsed ==
  \E ip \in IPs :
    /\ Len(sinceBan[ip]) >= 5
    /\ sinceBan[ip][5] - sinceBan[ip][4] >= Minutes(5)
    /\ CallsInWindow(sinceBan[ip], sinceBan[ip][4]) = 4
    /\ bansAt[ip] = << >>
    /\ ~Has(ipBans, ip)

\* C3: the record written by the N-th ban of an identity has violations = N,
\* also when its earlier bans have run out and isBanned has seen them run out.
EscalationCounterCountsBans ==
  \A ip \in DOMAIN ipBans : ipBans[ip].violations = Len(bansAt[ip])

\* the step is the ban check of the request in slot r
BanChecked(r) == reqs[r].pc = "banCheck" /\ reqs'[r].pc # "banCheck"

\* C4: isBanned answers false when the identity has no record; with a record
\* it answers true while now <= bannedUntil and leaves the record; the first
\* call with now > bannedUntil answers false and deletes the record.  Nothing
\* but the clock moves a ban from true to false.
IsBannedLifecycle ==
  [][\A r \in Slots :
       BanChecked(r) =>
         LET ip == reqs[r].ip
             answer == reqs'[r].verdict = "Banned"
         IN /\ ~Has(ipBans, ip) => ~answer /\ ipBans' = ipBans
            /\ Has(ipBans, ip) =>
                 IF now <= ipBans[ip].bannedUntil
                 THEN answer /\ ipBans' = ipBans
                 ELSE /\ ~answer
                      /\ ~Has(ipBans', ip)
                      /\ \A other \in DOMAIN ipBans \ {ip} :
                           Has(ipBans', other) /\ ipBans'[other] = ipBans[other]]_vars

\* a ban check one millisecond after bannedUntil has let the request through
\* and removed the record
BanLiftedByTime ==
  \E r \in Slots :
    /\ reqs[r].pc = "burst"
    /\ bansAt[reqs[r].ip] # << >>
    /\ reqs[r].checkedAt = bansAt[reqs[r].ip][1] + Minutes(15) + 1
    /\ ~Has(ipBans, reqs[r].ip)

\* the tiers as the specification states them
Capacity(tier) ==
  CASE tier = "burst" -> 50
    [] tier = "sustained" -> 100
    [] tier = "api" -> 200
    [] tier = "auth" -> 5

Period(tier) ==
  CASE tier = "burst" -> 1000
    [] tier = "sustained" -> Minutes(1)
    [] tier = "api" -> Minutes(15)
    [] tier = "auth" -> Minutes(1)

\* the step is the tier's limiter handling the request in slot r
LimiterRan(r, tier) == reqs[r].pc = tier /\ reqs'[r].pc # tier

\* C5: in a window of a tier that has not run out, a request that finds fewer
\* than max requests counted is allowed and counted (so the max-th is
\* allowed), and one that finds max counted is rejected (so is the
\* (max+1)-th); the first request after the window has run out
\* (now - windowStart >= windowMs) is allowed and leaves count = 1.
TierCapacityExact ==
  [][\A r \in Slots, tier \in Tiers :
       LimiterRan(r, tier) =>
         LET ip == reqs[r].ip
             rejected == reqs'[r].verdict = "RateLimited"
         IN IF Has(stores[tier], ip)
               /\ now - stores[tier][ip].windowStart < Period(tier)
            THEN IF stores[tier][ip].count < Capacity(tier)
                 THEN /\ ~rejected
                      /\ stores'[tier][ip].count = stores[tier][ip].count + 1
                      /\ stores'[tier][ip].windowStart = stores[tier][ip].windowStart
                 ELSE rejected /\ reqs'[r].tier = tier
            ELSE /\ ~rejected
                 /\ stores'[tier][ip] = [count |-> 1, windowStart |-> now]]_vars

\* the api tier, the largest, has counted 200 requests in one window and has
\* rejected the next
ApiTierExhausted ==
  \E r \in Slots :
    /\ reqs[r].verdict = "RateLimited"
    /\ reqs[r].tier = "api"
    /\ stores["api"][reqs[r].ip].count = 200
    /\ now - stores["api"][reqs[r].ip].windowStart < Minutes(15)

\* C6: a new identity sends its requests one after the other to a
\* programmatic, non-auth endpoint, all inside the first burst window.
\* Requests 1-50 are Allowed; 51-55 are RateLimited by the burst tier and
\* record one violation each; the ban is created while request 55 is
\* handled; requests 56-60 are Banned.
FloodScenario ==
  (load.routes = {"/api/posts"} /\ load.parallel = 1 /\ now < 1000) =>
    /\ \A r \in Slots :
         reqs[r].pc = "done" =>
           /\ reqs[r].seq \in 1..50 => reqs[r].verdict = "Allowed"
           /\ reqs[r].seq \in 51..55 =>
                /\ reqs[r].verdict = "RateLimited"
                /\ reqs[r].tier = "burst"
                /\ reqs[r].nviol = 1
           /\ reqs[r].seq \in 51..54 =>
                Len(ipViolations[reqs[r].ip]) = reqs[r].seq - 50
           /\ reqs[r].seq \in 56..60 => reqs[r].verdict = "Banned"
    /\ \A ip \in load.ips :
         LET handled55 ==
               \/ arrivals[ip] > 55
               \/ \E r \in Slots : /\ reqs[r].ip = ip
                                   /\ reqs[r].seq = 55
                                   /\ reqs[r].pc = "done"
         IN IF handled55
            THEN Has(ipBans, ip) /\ bansAt[ip] = <<now>> /\ ~Has(ipViolations, ip)
            ELSE ~Has(ipBans, ip) /\ bansAt[ip] = << >>

\* request 60 of the flood has been answered Banned inside the burst window
SixtiethBanned ==
  \E r \in Slots :
    /\ load.routes = {"/api/posts"}
    /\ now < 1000
    /\ reqs[r].seq = 60
    /\ reqs[r].verdict = "Banned"
    /\ stores["burst"][reqs[r].ip].count = 50
    /\ stores["sustained"][reqs[r].ip].count = 50

\* the routes under /api/
Programmatic(route) == route \in {"/api/posts", "/api/auth/login"}

\* C7: a RateLimited request on a route under /api/ is answered 429 with the
\* payload {error, retryAfter, resetTime}, retryAfter >= 0; on any other
\* route it is redirected to the rate-limit notice with the reset time as the
\* reset query parameter; neither gets the other shape.
DispatchByRoute ==
  \A r \in Slots :
    reqs[r].verdict = "RateLimited" =>
      IF Programmatic(reqs[r].route)
      THEN /\ reqs[r].res.status = 429
           /\ reqs[r].res.kind = "json"
           /\ DOMAIN reqs[r].res.body = {"error", "retryAfter", "resetTime"}
           /\ reqs[r].res.body.retryAfter >= 0
      ELSE /\ reqs[r].res.kind = "redirect"
           /\ reqs[r].res.location = "/429.html"
           /\ DOMAIN reqs[r].res.query = {"reset"}
           /\ reqs[r].res.query.reset \in
                {(reqs[r].resetAt \div 1000) - 1, reqs[r].resetAt \div 1000}

\* a page request has been rejected, by the sustained tier, and redirected
RejectedPageRedirected ==
  \E r \in Slots :
    /\ reqs[r].verdict = "RateLimited"
    /\ reqs[r].route = "/index.html"
    /\ reqs[r].res.kind = "redirect"
    /\ reqs[r].tier = "sustained"

\* C8: a request whose ban check answers true gets the fixed 403 response
\* whatever its route, and handling it changes no limiter window, no
\* violation log and no ban record; no limiter ever runs for it.
BannedShortCircuit ==
  [][\A r \in Slots :
       /\ (BanChecked(r) /\ reqs'[r].verdict = "Banned") =>
            /\ stores' = stores
            /\ ipViolations' = ipViolations
            /\ ipBans' = ipBans
            /\ reqs'[r].res = [status |-> 403, kind |-> "file", file |-> "403.html"]
       /\ reqs'[r].verdict = "Banned" =>
            /\ reqs'[r].pc = "done"
            /\ reqs'[r].ran = {}
            /\ reqs'[r].nviol = 0]_vars

\* a banned page request was answered 403 some time into the ban, with the
\* windows that led to the ban as they were
BannedPageForbidden ==
  \E r \in Slots :
    /\ reqs[r].verdict = "Banned"
    /\ reqs[r].route = "/index.html"
    /\ reqs[r].res.status = 403
    /\ reqs[r].checkedAt > bansAt[reqs[r].ip][1]
    /\ stores["burst"][reqs[r].ip].count = 50
    /\ ipBans[reqs[r].ip].bannedUntil = bansAt[reqs[r].ip][1] + Minutes(15)

\* C9 as stated: for every request that is not banned the burst tier and the
\* sustained tier are both evaluated, even when the burst tier rejects it.
BothGlobalTiersAlwaysRun ==
  \A r \in Slots :
    (reqs[r].pc = "done" /\ reqs[r].verdict \in {"Allowed", "RateLimited"}) =>
      {"burst", "sustained"} \subseteq reqs[r].ran

\* C9 as amended: for every request that is not banned the burst tier is
\* evaluated; the sustained tier is evaluated exactly when the burst tier
\* has let the request through; a request that a tier rejects is answered at
\* once, and the rejecting step changes no other tier's window.
ChainStopsAtFirstRejection ==
  [][\A r \in Slots :
       /\ (reqs'[r].pc = "done"
           /\ reqs'[r].verdict \in {"Allowed", "RateLimited"}) =>
            /\ "burst" \in reqs'[r].ran
            /\ "sustained" \in reqs'[r].ran
                 <=> ~(reqs'[r].verdict = "RateLimited" /\ reqs'[r].tier = "burst")
       /\ \A tier \in Tiers :
            (LimiterRan(r, tier) /\ reqs'[r].verdict = "RateLimited") =>
              /\ reqs'[r].pc = "done"
              /\ reqs'[r].ran = reqs[r].ran \cup {tier}
              /\ \A other \in Tiers \ {tier} : stores'[other] = stores[other]]_vars

\* the burst tier has rejected a request and the sustained tier has not
\* counted it
BurstRejectedSustainedSkipped ==
  \E r \in Slots :
    /\ reqs[r].verdict = "RateLimited"
    /\ reqs[r].tier = "burst"
    /\ reqs[r].seq = 51
    /\ reqs[r].ran = {"burst"}
    /\ stores["sustained"][reqs[r].ip].count = 50

\* the tiers that apply to a route, and their order
Applicable(route) ==
  {"burst", "sustained"}
  \cup (IF Programmatic(route) THEN {"api"} ELSE {})
  \cup (IF route = "/api/auth/login" THEN {"auth"} ELSE {})

Rank(tier) ==
  CASE tier = "burst" -> 1
    [] tier = "sustained" -> 2
    [] tier = "api" -> 3
    [] tier = "auth" -> 4

\* the step answers the request in slot r
Answered(r) == reqs[r].pc # "done" /\ reqs'[r].pc = "done"

\* C10: the tiers are evaluated in the order burst, sustained, api (routes
\* under /api/ only), auth (the authentication route only).  A request is
\* RateLimited exactly when an applicable tier rejects it; then the tiers
\* before that one have let it through, the verdict carries that tier and its
\* resetAt, and recordViolation has run once.  An Allowed request has passed
\* every applicable tier and no other, and has recorded nothing.
OneViolationByFirstRejectingTier ==
  [][\A r \in Slots :
       Answered(r) =>
         LET q == reqs'[r]
         IN /\ q.verdict \in {"Allowed", "RateLimited", "Banned"}
            /\ q.verdict = "RateLimited" =>
                 /\ q.tier \in Applicable(q.route)
                 /\ q.ran = {t \in Applicable(q.route) : Rank(t) <= Rank(q.tier)}
                 /\ LimiterRan(r, q.tier)
                 /\ stores[q.tier][q.ip].count >= Capacity(q.tier)
                 /\ q.resetAt = stores[q.tier][q.ip].windowStart + Period(q.tier)
                 /\ q.resetAt > now
                 /\ q.nviol = 1
                 /\ sinceBan'[q.ip] \in {Append(sinceBan[q.ip], now), << >>}
                 /\ IF Len(bansAt'[q.ip]) > Len(bansAt[q.ip])
                    THEN ~Has(ipViolations', q.ip)
                    ELSE /\ Has(ipViolations', q.ip)
                         /\ ipViolations'[q.ip][Len(ipViolations'[q.ip])] = now
                         /\ Len(ipViolations'[q.ip]) <=
                              1 + (IF Has(ipViolations, q.ip)
                                   THEN Len(ipViolations[q.ip]) ELSE 0)
            /\ q.verdict # "RateLimited" =>
                 /\ q.nviol = 0
                 /\ q.tier = "none"
                 /\ ipViolations' = ipViolations
                 /\ sinceBan' = sinceBan
                 /\ bansAt' = bansAt
            /\ q.verdict = "Allowed" => q.ran = Applicable(q.route)]_vars

\* a login request has passed burst, sustained and api and was rejected by
\* the auth tier, which put the fifth violation on record
AuthTierRejectedLast ==
  \E r \in Slots :
    /\ reqs[r].verdict = "RateLimited"
    /\ reqs[r].tier = "auth"
    /\ reqs[r].ran = {"burst", "sustained", "api", "auth"}
    /\ reqs[r].nviol = 1
    /\ Has(ipBans, reqs[r].ip)

\* the requests of the identity that the auth tier has counted and the route
\* has not answered yet
Unanswered(rq, ip) ==
  Cardinality({s \in Slots : /\ rq[s].pc = "route"
                             /\ rq[s].ip = ip
                             /\ rq[s].route = "/api/auth/login"})

\* the step is the authentication route answering the request in slot r
AuthAnswered(r) ==
  /\ reqs[r].pc = "route"
  /\ reqs'[r].pc = "done"
  /\ reqs[r].route = "/api/auth/login"

ViolationsInArrivalOrder ==
  /\ \A ip \in DOMAIN ipViolations :
       \A i, j \in 1..Len(ipViolations[ip]) :
         i < j => ipViolations[ip][i] <= ipViolations[ip][j]
  /\ \A r \in Slots : reqs[r].nviol > 0 => ~reqs[r].overtaken

\* the step writes a ban record for the identity
BanWritten(ip) ==
  /\ Has(ipBans', ip)
  /\ ~Has(ipBans, ip) \/ ipBans'[ip] # ipBans[ip]

\* C14: right after recordViolation has created a ban the identity has no
\* log, and the ban was created on top of 4 logged violations of the last
\* five minutes, so the next ban takes 5 further violations; every stored
\* log has at most 4 entries.
ViolationsSpentByBan ==
  [][\A ip \in IPs :
       /\ Has(ipViolations', ip) => Len(ipViolations'[ip]) \in 1..4
       /\ BanWritten(ip) =>
            /\ ~Has(ipViolations', ip)
            /\ Has(ipViolations, ip)
            /\ Cardinality({i \in 1..Len(ipViolations[ip]) :
                              now - ipViolations[ip][i] < Minutes(5)}) = 4]_vars

\* an identity has been banned a second time and its log is empty again
SecondBanLogEmpty ==
  \E ip \in IPs :
    /\ Len(bansAt[ip]) = 2
    /\ Has(ipBans, ip)
    /\ ipBans[ip].bannedUntil = bansAt[ip][2] + Minutes(15)
    /\ now = bansAt[ip][2]
    /\ ~Has(ipViolations, ip)

\* the entries of the identity's log that are less than five minutes old
Fresh(viols, ip, t) ==
  IF Has(viols, ip)
  THEN {i \in 1..Len(viols[ip]) : t - viols[ip][i] < Minutes(5)}
  ELSE {}

\* C15: after every recordViolation(identity) at time now, every timestamp
\* kept in the identity's log is less than five minutes old; the entries that
\* are five minutes old or older are dropped before the threshold is
\* evaluated, so only the younger ones and the new one count toward a ban.
FreshAfterRecord ==
  [][\A ip \in IPs :
       Recorded(ip) =>
         LET kept == Cardinality(Fresh(ipViolations, ip, now))
         IN /\ Has(ipViolations', ip) =>
                 /\ \A i \in 1..Len(ipViolations'[ip]) :
                      /\ now - ipViolations'[ip][i] < Minutes(5)
                      /\ ipViolations'[ip][i] <= now
                 /\ Len(ipViolations'[ip]) = kept + 1
            /\ BanWritten(ip) <=> kept + 1 >= 5]_vars

\* a violation was recorded exactly five minutes after the one before it,
\* which was dropped: the log holds the new one alone and there is no ban
FiveMinuteOldDropped ==
  \E ip \in IPs :
    /\ Len(sinceBan[ip]) >= 2
    /\ sinceBan[ip][Len(sinceBan[ip])] = now
    /\ sinceBan[ip][Len(sinceBan[ip]) - 1] = now - Minutes(5)
    /\ Has(ipViolations, ip)
    /\ ipViolations[ip] = <<now>>
    /\ ~Has(ipBans, ip)

\* C16: every ban record written has bannedUntil = the time of the
\* recordViolation that wrote it + 15 minutes, which is not before that
\* time, whatever violations count the record gets (one more than that of
\* the record it replaces, 1 when it replaces none).
BanDurationFixed ==
  [][\A ip \in IPs :
       BanWritten(ip) =>
         /\ ipBans'[ip].bannedUntil = now + Minutes(15)
         /\ ipBans'[ip].bannedUntil >= now
         /\ ipBans'[ip].violations =
              (IF Has(ipBans, ip) THEN ipBans[ip].violations ELSE 0) + 1
         /\ \E r \in Slots : reqs'[r].ip = ip /\ reqs'[r].nviol = 1]_vars

\* a record with a violations count above 1 replaced at a later time: the
\* new record ends 15 minutes from now like any other
RepeatBanSameDuration ==
  \E ip \in IPs :
    /\ now = 999
    /\ Has(ipBans, ip)
    /\ ipBans[ip].violations = MaxViolations + 1
    /\ ipBans[ip].bannedUntil = Minutes(15) + 999
    /\ reqs[1].ip = ip
    /\ reqs[1].nviol = 1

\* C17: a RateLimited request handled at time now with reset time resetAt
\* (resetAt >= now) is told retryAfter = floor((resetAt - now) / 1000), and
\* the resetTime of the payload, or the reset parameter of the redirect, is
\* floor(resetAt / 1000), for all now and resetAt.
ResetTimeExact ==
  \A r \in Slots :
    reqs[r].verdict = "RateLimited" =>
      /\ reqs[r].resetAt >= reqs[r].checkedAt
      /\ IF reqs[r].res.kind = "json"
         THEN /\ reqs[r].res.body.retryAfter =
                   (reqs[r].resetAt - reqs[r].checkedAt) \div 1000
              /\ reqs[r].res.body.resetTime = reqs[r].resetAt \div 1000
         ELSE reqs[r].res.query.reset = reqs[r].resetAt \div 1000

\* the identity's entry in the map, if it has one
Entry(m, ip) == IF Has(m, ip) THEN <<m[ip]>> ELSE << >>

\* C18: a call made for identity A changes only A's ban record, log and
\* windows: every other identity B keeps its ban record, its log and its
\* window of every tier, so what isBanned and each tier would answer B at
\* this instant is the same after the call as before it.
IdentityIsolation ==
  [][\A ip \in IPs :
       (reqs'[1].ip = ip /\ load'.budget < load.budget) =>
         \A other \in IPs \ {ip} :
           /\ Entry(ipBans', other) = Entry(ipBans, other)
           /\ Entry(ipViolations', other) = Entry(ipViolations, other)
           /\ \A tier \in Tiers :
                /\ Entry(stores'[tier], other) = Entry(stores[tier], other)
                /\ checkAndConsume(stores'[tier], other, tier, now).allowed
                     = checkAndConsume(stores[tier], other, tier, now).allowed
           /\ isBanned(ipBans', other, now).banned
                = isBanned(ipBans, other, now).banned]_vars

\* a call for one identity has banned it while the other identity has a ban
\* record, a log of four violations and used-up windows of its own
BannedBesideOther ==
  \E ip \in IPs :
    \E other \in IPs \ {ip} :
      /\ reqs[1].ip = ip
      /\ reqs[1].nviol = 1
      /\ now = 999
      /\ Has(ipBans, ip)
      /\ ipBans[ip].bannedUntil = Minutes(15) + 999
      /\ ~Has(ipViolations, ip)
      /\ Has(ipBans, other)
      /\ ipBans[other].bannedUntil = Minutes(15)
      /\ Has(ipViolations, other)
      /\ Len(ipViolations[other]) = 4
      /\ Has(stores["burst"], other)
      /\ stores["burst"][other].count = 50

\* C19: in every interleaving of the steps of concurrent requests of one
\* identity, recordViolation never runs for an identity that has a ban record
\* that has not run out, so a step never moves the bannedUntil of an active
\* ban or raises its violations.
NoViolationUnderActiveBan ==
  [][\A ip \in IPs :
       (Has(ipBans, ip) /\ now <= ipBans[ip].bannedUntil) =>
         /\ ~Recorded(ip)
         /\ Has(ipBans', ip)
         /\ ipBans'[ip] = ipBans[ip]]_vars

\* C20: time moving on, every ban runs out although the banned identity
\* keeps sending requests while it is banned: a request answered Banned
\* leaves the ban record as it is, and after the n-th ban of an identity a
\* request of it is checked after that ban's bannedUntil, passes the ban
\* check and is Allowed.
BansAlwaysLift ==
  /\ [][\A r \in Slots :
          (BanChecked(r) /\ reqs'[r].verdict = "Banned") => ipBans' = ipBans]_vars
  /\ \A ip \in IPs, n \in 1..3 :
       (Len(bansAt[ip]) >= n)
         ~> (\E r \in Slots :
               /\ Len(bansAt[ip]) >= n
               /\ reqs[r].ip = ip
               /\ reqs[r].verdict = "Allowed"
               /\ reqs[r].checkedAt > bansAt[ip][n] + Minutes(15))

\* the identity was answered Banned in the last millisecond of its ban, and
\* its next request, a millisecond later, has been Allowed
AllowedAfterBan ==
  \E r \in Slots :
    /\ reqs[r].verdict = "Allowed"
    /\ bansAt[reqs[r].ip] # << >>
    /\ reqs[r].checkedAt = bansAt[reqs[r].ip][1] + Minutes(15) + 1
    /\ now = reqs[r].checkedAt
    /\ arrivals[reqs[r].ip] >= 12
    /\ ~Has(ipBans, reqs[r].ip)

====
